---- MODULE Spec2Model ----
(***************************************************************************)
(* HubSpot contact updater (src/hubspot.py): the client class              *)
(* HubSpotContactUpdater with update_lead_score, get_contact and           *)
(* batch_update_lead_scores, the example runner main() that the module's   *)
(* __main__ block calls, and the function cli_interface().                 *)
(*                                                                         *)
(* Text built by an f-string is a sequence of its parts, so that "the      *)
(* message contains X" is a membership test.  A float score is held in     *)
(* hundredths (8550 is 85.5).  The remote API and the clock are the        *)
(* environment: every HTTP call draws its outcome from HttpOutcomes and    *)
(* every datetime.now() draws from Clock.                                  *)
(***************************************************************************)
EXTENDS Integers, Sequences, FiniteSets, TLC

VARIABLES
    json_error_is_request_exception,  \* the installed requests: does response.json() raise a RequestException subclass
    pc,              \* where control is
    frame,           \* the frame that called the running method: <<>> for a library caller, main()'s locals otherwise
    client,          \* the client object in use: <<>> before construction, <<object>> after
    call,            \* the most recent completed call: its operation, arguments, environment and outcome
    sent,            \* the HTTP requests issued by the current (or last) call, in order
    contact_scores,  \* the mapping a running batch iterates: <<contact_id, score>> pairs in iteration order
    outcomes,        \* what the API answered to each request of the running batch
    results,         \* the list batch_update_lead_scores is building
    exit_code        \* the process's exit status once it has ended: <<>> while running

vars == <<json_error_is_request_exception, pc, frame, client, call,
          sent, contact_scores, outcomes, results, exit_code>>

----------------------------------------------------------------------------
(* Bounds of the model *)

MaxBatch == 2
MaxProps == 2

----------------------------------------------------------------------------
(* Python values *)

None == "<None>"

\* a truth test that takes only None for false, as "token is None" would
Falsy_NoneOnly(x) == x = None

\* not x, for a value that is None or a string
Falsy(x) == x = None \/ x = ""

\* str() of a value placed in an f-string
PyStr(x) == IF x = None THEN "None" ELSE x

\* str(float): the shortest repr, always with a fractional part
PyStrFloat(h) ==
    LET ip == h \div 100
        fr == h % 100
    IN  ToString(ip) \o "." \o
        (IF fr % 10 = 0 THEN ToString(fr \div 10)
         ELSE IF fr < 10 THEN "0" \o ToString(fr)
         ELSE ToString(fr))

\* dict.get(key, default)
Get(items, key, default) == IF key \in DOMAIN items THEN items[key] ELSE default

\* ",".join(names): the names with a "," between neighbours
RECURSIVE Join(_)
Join(names) ==
    IF Len(names) = 0 THEN <<>>
    ELSE IF Len(names) = 1 THEN <<names[1]>>
    ELSE <<names[1], ",">> \o Join(Tail(names))

\* an Optional[list] argument: omitted (None), or a list
Omitted == [given |-> FALSE]
Given(list) == [given |-> TRUE, list |-> list]

\* truth value of an Optional[list]: None and [] are false
Truthy(properties) == properties.given /\ Len(properties.list) > 0

\* a dict and a list, as Python tells them apart
Dict(items) == [type |-> "dict", items |-> items]
List(items) == [type |-> "list", items |-> items]

\* datetime.now().isoformat()
Isoformat(dt) == dt.date \o "T" \o dt.time

Return(v) == [kind |-> "return", value |-> v]
Raise(e) == [kind |-> "raise", exc |-> e]

----------------------------------------------------------------------------
(* Inputs and environment *)

Tokens == {None, "", "secret"}
LibraryTokens == {None, "secret"}
Ids == {"A", "B", "C"}
Scores == {100, 8550}
ScoreOf == [A |-> 100, B |-> 8550, C |-> 7325]
PropNames == {"a", "b"}

SeqsUpTo(S, n) == UNION {[1..k -> S] : k \in 0..n}

PropertyLists == {Omitted} \cup {Given(l) : l \in SeqsUpTo(PropNames, MaxProps)}

\* a dict of contact ids to scores, as the pairs in its iteration order: no key twice
BatchInputs ==
    {[i \in 1..Len(s) |-> <<s[i], ScoreOf[s[i]]>>] :
        s \in {t \in SeqsUpTo(Ids, MaxBatch) :
                  \A i, j \in 1..Len(t) : i # j => t[i] # t[j]}}

Clock == {[date |-> "2024-05-01", time |-> "09:00:00"],
          [date |-> "2024-05-01", time |-> "09:00:01.250000"]}

BodyFull == "{\"id\": \"A\", \"properties\": {\"custom_lead_score_marshall\": \"85.5\"}}"
BodyEmptyObject == "{}"
BodyArray == "[]"
BodyHtml == "<html>Bad Gateway</html>"
BodyError == "{\"status\": \"error\", \"message\": \"resource not found\"}"

\* Response.json(): the parsed body, or the decoding error
ParseJson(text) ==
    CASE text = BodyFull ->
           [ok |-> TRUE,
            value |-> Dict([id |-> "A",
                            properties |-> Dict([custom_lead_score_marshall |-> "85.5"])])]
      [] text = BodyEmptyObject -> [ok |-> TRUE, value |-> Dict(<<>>)]
      [] text = BodyError ->
           [ok |-> TRUE,
            value |-> Dict([status |-> "error", message |-> "resource not found"])]
      [] text = BodyArray -> [ok |-> TRUE, value |-> List(<<>>)]
      [] OTHER -> [ok |-> FALSE, error |-> "Expecting value: line 1 column 1 (char 0)"]

Responses ==
    {[kind |-> "response", status_code |-> 200, text |-> BodyFull],
     [kind |-> "response", status_code |-> 200, text |-> BodyEmptyObject],
     [kind |-> "response", status_code |-> 200, text |-> BodyArray],
     [kind |-> "response", status_code |-> 200, text |-> BodyHtml],
     [kind |-> "response", status_code |-> 201, text |-> BodyFull],
     [kind |-> "response", status_code |-> 404, text |-> BodyError]}

TransportFailures ==
    {[kind |-> "failure", exc |-> "ConnectionError", text |-> "Connection refused"]}

HttpOutcomes == Responses \cup TransportFailures

\* the subclasses of requests.exceptions.RequestException among the exceptions raised
IsRequestException(exc) ==
    \/ exc \in {"ConnectionError", "Timeout"}
    \/ exc = "JSONDecodeError" /\ json_error_is_request_exception

----------------------------------------------------------------------------
(* class HubSpotContactUpdater *)

HubSpotContactUpdater(access_token) ==
    [access_token |-> access_token,
     base_url |-> "https://api.hubapi.com",
     headers |-> [Authorization |-> <<"Bearer ", PyStr(access_token)>>,
                  ContentType |-> "application/json"]]

Endpoint(self, contact_id) == self.base_url \o "/crm/v3/objects/contacts/" \o contact_id

PatchRequest(self, contact_id, score_value) ==
    [method |-> "PATCH",
     url |-> Endpoint(self, contact_id),
     headers |-> self.headers,
     json |-> [properties |-> [custom_lead_score_marshall |-> PyStrFloat(score_value)]]]

\* a success test that takes every 2xx status
StatusOk_Any2xx(status_code) == status_code \div 100 = 2

\* the test of the response that update_lead_score takes for success
StatusOk(status_code) == status_code = 200

\* an except branch that reports a status code of its own
RequestFailedResult_WithStatus(e, now) ==
    [success |-> FALSE,
     message |-> <<"Request failed: ", e>>,
     status_code |-> 0,
     timestamp |-> Isoformat(now)]

\* the Result of the except branch: the request raised exception text e
RequestFailedResult(e, now) ==
    [success |-> FALSE,
     message |-> <<"Request failed: ", e>>,
     timestamp |-> Isoformat(now)]

\* the Result of the else branch: a response that is not taken for success
FailedResult(response, now) ==
    [success |-> FALSE,
     message |-> <<"Failed to update contact">>,
     status_code |-> response.status_code,
     error |-> response.text,
     timestamp |-> Isoformat(now)]

\* the Result of the success branch, from the parsed body result
SuccessResult(contact_id, result, now) ==
    [success |-> TRUE,
     message |-> <<"Successfully updated contact ", contact_id>>,
     contact_id |-> Get(result.items, "id", None),
     updated_properties |-> Get(result.items, "properties", Dict(<<>>)),
     timestamp |-> Isoformat(now)]

\* what update_lead_score returns or raises when the PATCH ends in outcome o at time now
update_lead_score(contact_id, o, now) ==
    IF o.kind = "failure" THEN
        IF IsRequestException(o.exc)
        THEN Return(RequestFailedResult(o.text, now))
        ELSE Raise(o.exc)
    ELSE IF StatusOk(o.status_code) THEN
        LET parsed == ParseJson(o.text) IN
        IF ~parsed.ok THEN
            IF IsRequestException("JSONDecodeError")
            THEN Return(RequestFailedResult(parsed.error, now))
            ELSE Raise("JSONDecodeError")
        ELSE IF parsed.value.type # "dict" THEN Raise("AttributeError")
        ELSE Return(SuccessResult(contact_id, parsed.value, now))
    ELSE Return(FailedResult(o, now))

\* query parameters that test "properties is not None" instead of its truth
GetParams_WhenGiven(properties) ==
    IF properties.given
    THEN [properties |-> Join(properties.list)]
    ELSE <<>>

\* the query parameters of get_contact
GetParams(properties) ==
    IF Truthy(properties)
    THEN [properties |-> Join(properties.list)]
    ELSE <<>>

GetRequest(self, contact_id, properties) ==
    [method |-> "GET",
     url |-> Endpoint(self, contact_id),
     headers |-> self.headers,
     params |-> GetParams(properties)]

\* what get_contact returns or raises when the GET ends in outcome o
get_contact(o) ==
    IF o.kind = "failure" THEN
        IF IsRequestException(o.exc)
        THEN Return([success |-> FALSE, error |-> o.text])
        ELSE Raise(o.exc)
    ELSE IF o.status_code = 200 THEN
        LET parsed == ParseJson(o.text) IN
        IF ~parsed.ok THEN
            IF IsRequestException("JSONDecodeError")
            THEN Return([success |-> FALSE, error |-> parsed.error])
            ELSE Raise("JSONDecodeError")
        ELSE Return([success |-> TRUE, data |-> parsed.value])
    ELSE Return([success |-> FALSE, error |-> o.text, status_code |-> o.status_code])

----------------------------------------------------------------------------
(* The program's steps *)

NoCall == [op |-> "none"]

Init ==
    /\ json_error_is_request_exception \in BOOLEAN
    /\ pc = "start"
    /\ frame = <<>>
    /\ client = <<>>
    /\ call = NoCall
    /\ sent = <<>>
    /\ contact_scores = <<>>
    /\ outcomes = <<>>
    /\ results = <<>>
    /\ exit_code = <<>>

\* __init__: a caller of the class constructs a client
Construct(access_token) ==
    /\ pc \in {"start", "ready"}
    /\ client' = <<HubSpotContactUpdater(access_token)>>
    /\ call' = [op |-> "__init__", access_token |-> access_token,
                ret |-> Return(None)]
    /\ sent' = <<>>
    /\ pc' = "ready"
    /\ UNCHANGED <<json_error_is_request_exception, frame, contact_scores,
                   outcomes, results, exit_code>>

\* a caller of the class calls update_lead_score
UpdateLeadScore(contact_id, score_value, o, now) ==
    /\ pc = "ready"
    /\ sent' = <<PatchRequest(client[1], contact_id, score_value)>>
    /\ call' = [op |-> "update_lead_score", contact_id |-> contact_id,
                score_value |-> score_value, outcome |-> o,
                ret |-> update_lead_score(contact_id, o, now)]
    /\ UNCHANGED <<json_error_is_request_exception, pc, frame, client,
                   contact_scores, outcomes, results, exit_code>>

\* a caller of the class calls get_contact
GetContact(contact_id, properties, o) ==
    /\ pc = "ready"
    /\ sent' = <<GetRequest(client[1], contact_id, properties)>>
    /\ call' = [op |-> "get_contact", contact_id |-> contact_id,
                properties |-> properties, outcome |-> o,
                ret |-> get_contact(o)]
    /\ UNCHANGED <<json_error_is_request_exception, pc, frame, client,
                   contact_scores, outcomes, results, exit_code>>

\* batch_update_lead_scores is entered: results = []
EnterBatch(cs, fr) ==
    /\ contact_scores' = cs
    /\ results' = <<>>
    /\ outcomes' = <<>>
    /\ sent' = <<>>
    /\ frame' = fr
    /\ call' = [op |-> "batch_update_lead_scores", running |-> TRUE]
    /\ pc' = "batch"

\* a caller of the class calls batch_update_lead_scores
BatchCall(cs) ==
    /\ pc = "ready"
    /\ EnterBatch(cs, <<>>)
    /\ UNCHANGED <<json_error_is_request_exception, client, exit_code>>

\* main() ends: by returning (the interpreter then exits 0) or by an uncaught
\* exception (the interpreter prints the traceback and exits 1)
EndMain(token, failed, ret) ==
    /\ pc' = "exit"
    /\ call' = [op |-> "main", token |-> token, failed |-> failed, ret |-> ret]
    /\ exit_code' = <<IF ret.kind = "return" THEN 0 ELSE 1>>

\* control leaves batch_update_lead_scores with ret and its locals die: back to
\* the library caller, or back into main(), which prints the batch and
\* returns, or dies of the exception
LeaveBatch(os, ret) ==
    /\ contact_scores' = <<>>
    /\ outcomes' = <<>>
    /\ results' = <<>>
    /\ frame' = <<>>
    /\ IF frame = <<>>
       THEN /\ pc' = "ready"
            /\ call' = [op |-> "batch_update_lead_scores", running |-> FALSE,
                        contact_scores |-> contact_scores, outcomes |-> os,
                        ret |-> ret]
            /\ UNCHANGED exit_code
       ELSE EndMain(frame[1].token,
                    \/ frame[1].failed
                    \/ ret.kind = "raise"
                    \/ \E i \in 1..Len(results) : ~results[i].result.success,
                    IF ret.kind = "return" THEN Return(None) ELSE ret)

\* one iteration of the loop: the entry's update_lead_score, then the append
BatchIterate(o, now) ==
    /\ pc = "batch"
    /\ Len(outcomes) < Len(contact_scores)
    /\ LET entry == contact_scores[Len(outcomes) + 1]
           r == update_lead_score(entry[1], o, now)
       IN  /\ sent' = Append(sent, PatchRequest(client[1], entry[1], entry[2]))
           /\ IF r.kind = "return"
              THEN /\ results' = Append(results, [contact_id |-> entry[1],
                                                  score |-> entry[2],
                                                  result |-> r.value])
                   /\ outcomes' = Append(outcomes, o)
                   /\ UNCHANGED <<pc, frame, call, contact_scores, exit_code>>
              ELSE LeaveBatch(Append(outcomes, o), r)
    /\ UNCHANGED <<json_error_is_request_exception, client>>

\* the loop is exhausted: return results
BatchReturn ==
    /\ pc = "batch"
    /\ Len(outcomes) = Len(contact_scores)
    /\ LeaveBatch(outcomes, Return(results))
    /\ UNCHANGED <<json_error_is_request_exception, client, sent>>

\* the contacts of main()'s examples
ExampleContact == "12345"
ExampleScore == 8550
ExampleProperties == Given(<<"custom_lead_score_marshall", "email", "firstname", "lastname">>)
ExampleBatch == <<<<"12345", 8550>>, <<"12346", 9200>>, <<"12347", 7325>>>>

\* the __main__ block calls main(): the token is read from the environment
MainStart(environ) ==
    /\ pc = "start"
    /\ IF Falsy(environ)
       THEN /\ EndMain(environ, TRUE, Return(None))
            /\ UNCHANGED <<client, frame>>
       ELSE /\ client' = <<HubSpotContactUpdater(environ)>>
            /\ frame' = <<[token |-> environ, failed |-> FALSE]>>
            /\ pc' = "main_ex1"
            /\ call' = [op |-> "main", running |-> TRUE]
            /\ UNCHANGED exit_code
    /\ UNCHANGED <<json_error_is_request_exception, sent, contact_scores,
                   outcomes, results>>

\* main(), example 1: update one contact and print the result
MainExample1(o, now) ==
    /\ pc = "main_ex1"
    /\ sent' = <<PatchRequest(client[1], ExampleContact, ExampleScore)>>
    /\ LET result == update_lead_score(ExampleContact, o, now) IN
       IF result.kind = "raise"
       THEN /\ EndMain(frame[1].token, TRUE, result)
            /\ frame' = <<>>
       ELSE /\ frame' = <<[frame[1] EXCEPT !.failed = ~result.value.success]>>
            /\ pc' = "main_ex2"
            /\ UNCHANGED <<call, exit_code>>
    /\ UNCHANGED <<json_error_is_request_exception, client, contact_scores,
                   outcomes, results>>

\* main(), example 2: fetch the contact and print its properties
MainExample2(o) ==
    /\ pc = "main_ex2"
    /\ sent' = <<GetRequest(client[1], ExampleContact, ExampleProperties)>>
    /\ LET contact_info == get_contact(o)
           data == contact_info.value.data
           properties == Get(data.items, "properties", Dict(<<>>))
           ret == IF contact_info.kind = "raise" THEN contact_info
                  ELSE IF ~contact_info.value.success THEN Return(None)
                  ELSE IF data.type # "dict" THEN Raise("AttributeError")
                  ELSE IF properties.type # "dict" THEN Raise("AttributeError")
                  ELSE Return(None)
       IN  IF ret.kind = "raise"
           THEN /\ EndMain(frame[1].token, TRUE, ret)
                /\ frame' = <<>>
           ELSE /\ frame' = <<[frame[1] EXCEPT !.failed =
                                  @ \/ ~contact_info.value.success]>>
                /\ pc' = "main_ex3"
                /\ UNCHANGED <<call, exit_code>>
    /\ UNCHANGED <<json_error_is_request_exception, client, contact_scores,
                   outcomes, results>>

\* main(), example 3: the batch over the three example contacts
MainExample3 ==
    /\ pc = "main_ex3"
    /\ EnterBatch(ExampleBatch, frame)
    /\ UNCHANGED <<json_error_is_request_exception, client, exit_code>>

\* a cli_interface that returns 0 whatever the Result
CliReturn_AlwaysZero(result) ==
    IF result.kind = "raise" THEN result ELSE Return(0)

\* what cli_interface returns once update_lead_score has ended in result
CliReturn(result) ==
    IF result.kind = "raise" THEN result
    ELSE IF result.value.success THEN Return(0)
    ELSE Return(1)

\* cli_interface(): flag is the value of --token (None when not passed), environ
\* the environment variable argparse falls back to; it is called by nobody in
\* the program as shipped, its return value goes back to whoever calls it
CliInterface(contact_id, score, flag, environ, o, now) ==
    /\ pc = "start"
    /\ pc' = "returned"
    /\ LET token == IF flag = None THEN environ ELSE flag
           result == update_lead_score(contact_id, o, now)
       IN  IF Falsy(token)
           THEN /\ call' = [op |-> "cli_interface", token |-> token,
                            requested |-> FALSE, ret |-> Return(1)]
                /\ UNCHANGED <<client, sent>>
           ELSE /\ client' = <<HubSpotContactUpdater(token)>>
                /\ sent' = <<PatchRequest(HubSpotContactUpdater(token), contact_id, score)>>
                /\ call' = [op |-> "cli_interface", token |-> token,
                            requested |-> TRUE, outcome |-> o,
                            contact_id |-> contact_id, score |-> score,
                            result |-> result, ret |-> CliReturn(result)]
    /\ UNCHANGED <<json_error_is_request_exception, frame, contact_scores,
                   outcomes, results, exit_code>>

Next ==
    \/ \E t \in LibraryTokens : Construct(t)
    \/ \E c \in Ids, v \in Scores, o \in HttpOutcomes, now \in Clock :
          UpdateLeadScore(c, v, o, now)
    \/ \E c \in Ids, p \in PropertyLists, o \in HttpOutcomes : GetContact(c, p, o)
    \/ \E cs \in BatchInputs : BatchCall(cs)
    \/ \E o \in HttpOutcomes, now \in Clock : BatchIterate(o, now)
    \/ BatchReturn
    \/ \E environ \in Tokens : MainStart(environ)
    \/ \E o \in HttpOutcomes, now \in Clock : MainExample1(o, now)
    \/ \E o \in HttpOutcomes : MainExample2(o)
    \/ MainExample3
    \/ \E c \in Ids, v \in Scores, flag \in Tokens, environ \in Tokens,
          o \in HttpOutcomes, now \in Clock : CliInterface(c, v, flag, environ, o, now)

Spec == Init /\ [][Next]_vars

----------------------------------------------------------------------------
(* Properties *)

\* the call named op has ended, by returning or by raising
Finished(op) == call.op = op /\ "ret" \in DOMAIN call

Returned(op) == Finished(op) /\ call.ret.kind = "return"

\* text is one of the parts the message was built from
Contains(message, text) == \E i \in 1..Len(message) : message[i] = text

Missing(token) == token \in {None, ""}

\* C1: a batch update returns one triple per entry of the mapping, in the
\* mapping's iteration order, each with the entry's identifier, the submitted
\* value and the Result of the entry's own update, whatever the outcome of
\* each entry's request (HTTP 200, non-200, transport failure).
C1_BatchReturnsOneTriplePerEntry ==
    Finished("batch_update_lead_scores") =>
        /\ call.ret.kind = "return"
        /\ Len(call.ret.value) = Len(call.contact_scores)
        /\ \A i \in 1..Len(call.contact_scores) :
              /\ call.ret.value[i].contact_id = call.contact_scores[i][1]
              /\ call.ret.value[i].score = call.contact_scores[i][2]
              /\ call.ret.value[i].result.success =>
                    /\ call.outcomes[i].kind = "response"
                    /\ call.outcomes[i].status_code = 200

\* C2: in a batch update a request is attempted for every entry of the
\* mapping, whatever the outcome of the earlier entries.
C2_EveryEntryIsAttempted ==
    Finished("batch_update_lead_scores") =>
        \A i \in 1..Len(call.contact_scores) :
            \E k \in 1..Len(sent) :
                /\ sent[k].method = "PATCH"
                /\ sent[k].url = "https://api.hubapi.com/crm/v3/objects/contacts/"
                                    \o call.contact_scores[i][1]

\* C3: update_lead_score, get_contact and batch_update_lead_scores never let a
\* per-request error reach the caller: whatever the HTTP call ends in, the
\* operation returns.
C3_NoFaultReachesTheCaller ==
    \A op \in {"update_lead_score", "get_contact", "batch_update_lead_scores"} :
        Finished(op) => call.ret.kind = "return"

C5_Non200IsAFailureResult ==
    Finished("update_lead_score") =>
        /\ call.outcome.kind = "response" /\ call.outcome.status_code # 200 =>
              /\ call.ret.kind = "return"
              /\ call.ret.value.success = FALSE
              /\ call.ret.value.status_code = call.outcome.status_code
              /\ call.ret.value.error = call.outcome.text
              /\ Len(call.ret.value.message) > 0
              /\ ~Contains(call.ret.value.message, ToString(call.outcome.status_code))
              /\ "timestamp" \in DOMAIN call.ret.value
        /\ call.ret.kind = "return" /\ call.ret.value.success =>
              /\ call.outcome.kind = "response"
              /\ call.outcome.status_code = 200

\* a 2xx response other than 200 came back as a failure
C5_Witness ==
    /\ Returned("update_lead_score")
    /\ call.outcome.kind = "response"
    /\ call.outcome.status_code = 201
    /\ call.ret.value.success = FALSE
    /\ call.ret.value.status_code = 201

\* C6: on a transport failure update_lead_score returns success=false with no
\* status code field, a message holding the failure's description, and a
\* timestamp; a Result has a status code field exactly when a response with
\* a status other than 200 was received.
C6_TransportFailureHasNoStatusCode ==
    Finished("update_lead_score") =>
        /\ call.outcome.kind = "failure" =>
              /\ call.ret.kind = "return"
              /\ call.ret.value.success = FALSE
              /\ "status_code" \notin DOMAIN call.ret.value
              /\ Len(call.ret.value.message) > 0
              /\ Contains(call.ret.value.message, call.outcome.text)
              /\ "timestamp" \in DOMAIN call.ret.value
        /\ call.ret.kind = "return" =>
              ("status_code" \in DOMAIN call.ret.value
                 <=> /\ call.outcome.kind = "response"
                     /\ call.outcome.status_code # 200)

\* the connection failed and a Result without a status code came back
C6_Witness ==
    /\ Returned("update_lead_score")
    /\ call.outcome.kind = "failure"
    /\ call.ret.value.success = FALSE
    /\ "status_code" \notin DOMAIN call.ret.value

\* C7: on HTTP 200 update_lead_score returns success=true with a message that
\* holds the requested identifier, the body's id (None without one), the
\* body's properties (the empty mapping without them) and a timestamp.
C7_Status200IsASuccessResult ==
    Finished("update_lead_score")
      /\ call.outcome.kind = "response" /\ call.outcome.status_code = 200 =>
        /\ call.ret.kind = "return"
        /\ call.ret.value.success = TRUE
        /\ Contains(call.ret.value.message, call.contact_id)
        /\ call.ret.value.contact_id \in {"A", None}
        /\ call.ret.value.contact_id = None <=> call.outcome.text # BodyFull
        /\ call.ret.value.updated_properties.type = "dict"
        /\ DOMAIN call.ret.value.updated_properties.items = {} <=>
              call.outcome.text # BodyFull
        /\ "timestamp" \in DOMAIN call.ret.value

C9_PropertiesParameterIffNonEmptyList ==
    Finished("get_contact") =>
        LET params == sent[1].params
            names == call.properties.list
        IN  /\ Len(sent) = 1
            /\ sent[1].method = "GET"
            /\ "properties" \in DOMAIN params <=>
                  (call.properties.given /\ names # <<>>)
            /\ "properties" \in DOMAIN params =>
                  /\ DOMAIN params = {"properties"}
                  /\ Len(params.properties) = 2 * Len(names) - 1
                  /\ \A i \in 1..Len(names) : params.properties[2 * i - 1] = names[i]
                  /\ \A i \in 1..(Len(names) - 1) : params.properties[2 * i] = ","

\* the list ["a", "b"] went out as properties=a,b
C9_Witness ==
    /\ Finished("get_contact")
    /\ call.properties = Given(<<"a", "b">>)
    /\ sent[1].params = [properties |-> <<"a", ",", "b">>]

\* C10: no request is repeated: a batch update over N entries issues exactly
\* N PATCH requests, one per entry, in the mapping's iteration order.
C10_BatchIssuesOneRequestPerEntry ==
    Finished("batch_update_lead_scores") =>
        /\ Len(sent) = Len(call.contact_scores)
        /\ \A k \in 1..Len(sent) :
              /\ sent[k].method = "PATCH"
              /\ sent[k].url = "https://api.hubapi.com/crm/v3/objects/contacts/"
                                  \o call.contact_scores[k][1]
              /\ sent[k].json.properties.custom_lead_score_marshall
                    = PyStrFloat(call.contact_scores[k][2])

----------------------------------------------------------------------------
(* What the batch loop does keep, an aborted batch included *)

\* the PATCH request of the k-th entry of mapping cs
EntryRequestSent(cs, k) ==
    /\ sent[k].method = "PATCH"
    /\ sent[k].url = "https://api.hubapi.com/crm/v3/objects/contacts/" \o cs[k][1]
    /\ sent[k].json.properties.custom_lead_score_marshall = PyStrFloat(cs[k][2])

\* while the loop runs, one request has gone out per entry processed, in the
\* mapping's order, and one triple has been appended per request answered
BatchLoopIsSequential ==
    pc = "batch" =>
        /\ Len(sent) = Len(outcomes)
        /\ Len(results) = Len(outcomes)
        /\ Len(sent) <= Len(contact_scores)
        /\ \A k \in 1..Len(sent) : EntryRequestSent(contact_scores, k)

\* a batch that has ended, returned or aborted, repeated no request and
\* issued them in the mapping's order; one that returned issued all N and
\* returns one triple per entry
BatchEndsWithAPrefixSent ==
    Finished("batch_update_lead_scores") =>
        /\ Len(sent) = Len(call.outcomes)
        /\ Len(sent) <= Len(call.contact_scores)
        /\ \A k \in 1..Len(sent) : EntryRequestSent(call.contact_scores, k)
        /\ call.ret.kind = "return" =>
              /\ Len(sent) = Len(call.contact_scores)
              /\ Len(call.ret.value) = Len(call.contact_scores)
              /\ \A i \in 1..Len(call.contact_scores) :
                    /\ call.ret.value[i].contact_id = call.contact_scores[i][1]
                    /\ call.ret.value[i].score = call.contact_scores[i][2]
        /\ call.ret.kind = "raise" =>
              LET last == call.outcomes[Len(call.outcomes)]
              IN  /\ last.kind = "response"
                  /\ last.status_code = 200

\* an entry that ends in a failure Result leaves the loop running and the
\* triples already collected untouched
FailureResultKeepsTheLoopRunning ==
    [][(/\ pc = "batch"
        /\ Len(results') = Len(results) + 1
        /\ ~results'[Len(results')].result.success)
       => /\ pc' = "batch"
          /\ SubSeq(results', 1, Len(results)) = results]_vars

====
